---- MODULE Spec2Model ----
(***************************************************************************)
(* Model of iGadget.py: the ShapefileLoader dialog ("Inspecteur Gadget").  *)
(* The dialog scans a directory tree for vector files, shows one table row *)
(* per matched file, filters the rows by a search text and loads the       *)
(* checked rows as layers into the host project.                           *)
(*                                                                         *)
(* Strings whose characters the code inspects (file names, search text)    *)
(* are sequences of one-character strings; opaque strings (roots, labels)  *)
(* are TLA+ strings.  The dialog is single-threaded: a handler runs to its *)
(* end (or to the exception that leaves it) before the next one starts.    *)
(* An exception that leaves a handler is reported by the host's exception  *)
(* hook and the dialog stays open.                                         *)
(***************************************************************************)
EXTENDS Integers, Sequences, FiniteSets, TLC

(***************************************************************************)
(* Bounds of the model.                                                    *)
(***************************************************************************)
\* a load batch starts only while the project and the console together hold
\* at most this many entries
MaxLogged == 0
\* largest total handed to the progress update under SpecColor
MaxTotal == 14

(***************************************************************************)
(* File names and search texts used as inputs.                             *)
(***************************************************************************)
N_Ab_shp      == <<"A", "b", ".", "s", "h", "p">>
N_notadbf_txt == <<"n", "o", "t", "a", "d", "b", "f", ".", "t", "x", "t">>
N_mydbf       == <<"m", "y", "d", "b", "f">>
N_x_shp       == <<"x", ".", "s", "h", "p">>
N_report_dbf  == <<"r", "e", "p", "o", "r", "t", ".", "d", "b", "f">>
N_c_csv       == <<"c", ".", "c", "s", "v">>
N_w_kml       == <<"w", ".", "k", "m", "l">>

\* The files on disk, in the order os.walk enumerates them (a directory's
\* files, then its subdirectories).  root is the path of the file's
\* directory, one component per element.  mtime is the modification time in
\* hours since the epoch; stat = FALSE is an entry whose modification time
\* cannot be read (a dangling symbolic link); valid tells whether the host's
\* data-access layer opens the file, wkb is the geometry type it then reports.
Disk ==
  << [root |-> <<"d">>,        file |-> N_x_shp,       stat |-> TRUE,  mtime |-> 40, valid |-> FALSE, wkb |-> ""],
     [root |-> <<"d">>,        file |-> N_notadbf_txt, stat |-> TRUE,  mtime |-> 10, valid |-> FALSE, wkb |-> ""],
     [root |-> <<"d", "sub">>, file |-> N_Ab_shp,      stat |-> TRUE,  mtime |-> 5,  valid |-> TRUE,  wkb |-> "Polygon"],
     [root |-> <<"d", "sub">>, file |-> N_report_dbf,  stat |-> TRUE,  mtime |-> 30, valid |-> TRUE,  wkb |-> "NoGeometry"],
     [root |-> <<"m">>,        file |-> N_mydbf,       stat |-> TRUE,  mtime |-> 60, valid |-> TRUE,  wkb |-> "NoGeometry"],
     [root |-> <<"l">>,        file |-> N_c_csv,       stat |-> FALSE, mtime |-> 0,  valid |-> FALSE, wkb |-> ""],
     [root |-> <<"l">>,        file |-> N_w_kml,       stat |-> TRUE,  mtime |-> 20, valid |-> TRUE,  wkb |-> "LineString"] >>

\* What QFileDialog.getExistingDirectory returns: the path of the chosen
\* directory (<<"e">> is an empty directory), or the empty path when the
\* dialog is cancelled.
NoDirectory == <<>>

Directories == { <<"d">>, <<"d", "sub">>, <<"m">>, <<"l">>, <<"e">> }

\* Search texts typed into the search bar.
Texts ==
  { <<>>,
    <<"*", ".", "s", "h", "p">>,
    <<"D", "B", "F">>,
    <<"m", ".", "d">>,
    <<"[">> }

(***************************************************************************)
(* String helpers.                                                         *)
(***************************************************************************)
\* str.endswith
endswith(s, suf) ==
  /\ Len(suf) <= Len(s)
  /\ SubSeq(s, Len(s) - Len(suf) + 1, Len(s)) = suf

\* str.lower on one character
LowerChar(c) ==
  CASE c = "A" -> "a"
    [] c = "B" -> "b"
    [] c = "D" -> "d"
    [] c = "F" -> "f"
    [] c = "S" -> "s"
    [] OTHER   -> c

\* str.lower
lower(s) == [i \in 1 .. Len(s) |-> LowerChar(s[i])]

\* os.path.splitext(file)[1]: from the last dot on, unless only dots precede it
splitext(file) ==
  LET dots == { i \in 1 .. Len(file) : file[i] = "." }
  IN  IF dots = {} THEN <<>>
      ELSE LET d == CHOOSE i \in dots : \A j \in dots : j <= i
           IN  IF \E k \in 1 .. (d - 1) : file[k] # "."
               THEN SubSeq(file, d, Len(file))
               ELSE <<>>

\* os.path.join(root, file)
join(root, file) == <<root, file>>

\* datetime.fromtimestamp(mtime).strftime('%Y-%m-%d'): the calendar day
strftime(mtime) == mtime \div 24

\* str.replace('*', '.*')
RECURSIVE replace_star(_)
replace_star(s) ==
  IF s = <<>> THEN <<>>
  ELSE IF Head(s) = "*"
       THEN <<".", "*">> \o replace_star(Tail(s))
       ELSE <<Head(s)>> \o replace_star(Tail(s))

\* re.compile raises re.error: over the characters of Texts, a "[" that no
\* "]" closes (an unterminated character set)
re_error(pat) ==
  \E i \in 1 .. Len(pat) :
    /\ pat[i] = "["
    /\ \A j \in (i + 1) .. Len(pat) : pat[j] # "]"

\* the regular-expression match of pat[i ..] at s[j ..]: "." is any
\* character, an atom followed by "*" repeats zero or more times, any other
\* character is itself
RECURSIVE re_match_at(_, _, _, _)
re_match_at(pat, i, s, j) ==
  IF i > Len(pat) THEN TRUE
  ELSE IF i < Len(pat) /\ pat[i + 1] = "*"
       THEN \/ re_match_at(pat, i + 2, s, j)
            \/ /\ j <= Len(s)
               /\ (pat[i] = "." \/ pat[i] = s[j])
               /\ re_match_at(pat, i, s, j + 1)
       ELSE /\ j <= Len(s)
            /\ (pat[i] = "." \/ pat[i] = s[j])
            /\ re_match_at(pat, i + 1, s, j + 1)

\* re.search(pat, s) is not None, for a pattern that compiles
re_search(pat, s) == \E j \in 1 .. (Len(s) + 1) : re_match_at(pat, 1, s, j)

\* the pattern filter_files builds from the text of the search bar
search_pattern(text) == replace_star(lower(text))

(***************************************************************************)
(* The state of the dialog.                                                *)
(***************************************************************************)
VARIABLES
  all_files,                   \* self.all_files: the records of the last scan
  file_list,                   \* self.file_list: the displayed rows, top to bottom
  search_bar,                  \* self.search_bar.text()
  show_geometry_type_checkbox, \* the option's check box
  progress_bar,                \* value, maximum and chunk colour of the bar
  project,                     \* layers registered with QgsProject, in order
  console,                     \* paths printed as failed, in order
  pc,                          \* "idle", or "scan" inside list_shapefiles' loop
  directory,                   \* what the directory dialog last returned
  files_to_process,            \* list_shapefiles' local list
  index,                       \* number of files the loop has processed
  show_geometry_type,          \* list_shapefiles' local, read once at its start
  view,                        \* handler that last rebuilt the rows: "scan", "filter"
  raised                       \* exception that ended that handler, "" if none

vars == << all_files, file_list, search_bar, show_geometry_type_checkbox,
           progress_bar, project, console, pc, directory, files_to_process,
           index, show_geometry_type, view, raised >>

\* __init__
Init ==
  /\ all_files = <<>>
  /\ file_list = <<>>
  /\ search_bar = <<>>
  /\ show_geometry_type_checkbox = FALSE
  /\ progress_bar = [value |-> 0, maximum |-> 100, color |-> ""]
  /\ project = <<>>
  /\ console = <<>>
  /\ pc = "idle"
  /\ directory = NoDirectory
  /\ files_to_process = <<>>
  /\ index = 0
  /\ show_geometry_type = FALSE
  /\ view = "scan"
  /\ raised = ""

(***************************************************************************)
(* Scanning: select_directory and list_shapefiles.                         *)
(***************************************************************************)
\* the allow-list with its last entry written like the others (".dbf")
supported_extensions_dotted ==
  << <<".", "s", "h", "p">>,
     <<".", "g", "p", "k", "g">>,
     <<".", "g", "e", "o", "j", "s", "o", "n">>,
     <<".", "k", "m", "l">>,
     <<".", "c", "s", "v">>,
     <<".", "x", "l", "s", "x">>,
     <<".", "x", "l", "s">>,
     <<".", "d", "b", "f">> >>

supported_extensions ==
  << <<".", "s", "h", "p">>,
     <<".", "g", "p", "k", "g">>,
     <<".", "g", "e", "o", "j", "s", "o", "n">>,
     <<".", "k", "m", "l">>,
     <<".", "c", "s", "v">>,
     <<".", "x", "l", "s", "x">>,
     <<".", "x", "l", "s">>,
     <<"d", "b", "f">> >>

\* any(file.endswith(ext) for ext in supported_extensions)
is_supported(file) ==
  \E k \in 1 .. Len(supported_extensions) : endswith(file, supported_extensions[k])

\* whether root is the directory dir or lies beneath it
is_beneath(root, dir) ==
  /\ Len(dir) <= Len(root)
  /\ SubSeq(root, 1, Len(dir)) = dir

\* os.walk(directory): the files beneath the directory, in enumeration
\* order; the empty path names no directory and yields nothing
walk(dir) ==
  IF dir = <<>> THEN <<>>
  ELSE SelectSeq(Disk, LAMBDA f : is_beneath(f.root, dir))

\* the first pass of list_shapefiles: the matched files, in enumeration order
collect_files(dir) == SelectSeq(walk(dir), LAMBDA f : is_supported(f.file))

\* the label looked up whatever the option says
geometry_type_of_any_option(f, show) ==
  IF splitext(f.file) = <<".", "s", "h", "p">> /\ f.valid
  THEN f.wkb
  ELSE ""

\* the geometry-type label of one file
geometry_type_of(f, show) ==
  IF show /\ splitext(f.file) = <<".", "s", "h", "p">> /\ f.valid
  THEN f.wkb
  ELSE ""

\* the file_info dictionary built for one file
file_info_of(f, show) ==
  [ file           |-> f.file,
    file_path      |-> join(f.root, f.file),
    file_mtime     |-> strftime(f.mtime),
    root           |-> f.root,
    geometry_type  |-> geometry_type_of(f, show),
    file_extension |-> splitext(f.file) ]

\* the QTreeWidgetItem built from one record, with its check state
tree_item(info) ==
  [ file           |-> info.file,
    file_mtime     |-> info.file_mtime,
    root           |-> info.root,
    geometry_type  |-> info.geometry_type,
    file_extension |-> info.file_extension,
    file_path      |-> info.file_path,
    check          |-> 0 ]

\* a sort that is not stable: the new item goes above the rows of its date
sorted_position_unstable(rows, item) ==
  Cardinality({ i \in 1 .. Len(rows) : rows[i].file_mtime < item.file_mtime })

\* where the table, sorted ascending on the date column, keeps a new item:
\* below every row whose date is not later (the sort is stable)
sorted_position(rows, item) ==
  Cardinality({ i \in 1 .. Len(rows) : rows[i].file_mtime <= item.file_mtime })

\* add_file_item: the rows after the item is added to the sorted table
add_file_item(rows, info) ==
  LET item == tree_item(info)
      n    == sorted_position(rows, item)
  IN  SubSeq(rows, 1, n) \o <<item>> \o SubSeq(rows, n + 1, Len(rows))

\* the loop adds the record's row only when the text of the search bar
\* matches it
scan_add_item_filtered(rows, info) ==
  IF re_search(search_pattern(search_bar), lower(info.file))
  THEN add_file_item(rows, info)
  ELSE rows

\* self.add_file_item(file_info) in list_shapefiles' loop
scan_add_item(rows, info) == add_file_item(rows, info)

\* the thresholds compared with <= in place of <
update_progress_bar_color_le(value, total) ==
  IF value * 100 <= 50 * total THEN "red"
  ELSE IF value * 100 <= 80 * total THEN "yellow"
  ELSE "green"

\* update_progress_bar_color: percentage = (value / total) * 100, compared
\* with 50 and 80.  The products below are the same comparisons in exact
\* arithmetic; the floating-point results agree with them for every total
\* below 10^15.
update_progress_bar_color(value, total) ==
  IF value * 100 < 50 * total THEN "red"
  ELSE IF value * 100 < 80 * total THEN "yellow"
  ELSE "green"

\* list_shapefiles without self.all_files.clear()
list_shapefiles_keeps(dir) ==
  LET files == collect_files(dir)
  IN  /\ file_list' = <<>>
      /\ all_files' = all_files
      /\ show_geometry_type' = show_geometry_type_checkbox
      /\ files_to_process' = files
      /\ index' = 0
      /\ progress_bar' =
           [ progress_bar EXCEPT
               !.maximum = Len(files),
               !.value = IF progress_bar.value > Len(files) THEN -1 ELSE @ ]
      /\ pc' = IF Len(files) = 0 THEN "idle" ELSE "scan"
      /\ view' = "scan"
      /\ raised' = ""
      /\ UNCHANGED << search_bar, show_geometry_type_checkbox, project, console >>

\* list_shapefiles up to its loop: clear, read the option, collect the files
list_shapefiles(dir) ==
  LET files == collect_files(dir)
  IN  /\ file_list' = <<>>
      /\ all_files' = <<>>
      /\ show_geometry_type' = show_geometry_type_checkbox
      /\ files_to_process' = files
      /\ index' = 0
      /\ progress_bar' =
           [ progress_bar EXCEPT
               !.maximum = Len(files),
               \* setMaximum resets a value that the new range excludes
               !.value = IF progress_bar.value > Len(files) THEN -1 ELSE @ ]
      /\ pc' = IF Len(files) = 0 THEN "idle" ELSE "scan"
      /\ view' = "scan"
      /\ raised' = ""
      /\ UNCHANGED << search_bar, show_geometry_type_checkbox, project, console >>

\* select_directory with the dialog's answer dir
select_directory(dir) ==
  /\ directory' = dir
  /\ IF dir # <<>>
     THEN list_shapefiles(dir)
     ELSE UNCHANGED << all_files, file_list, search_bar, show_geometry_type_checkbox,
                       progress_bar, project, console, pc, files_to_process,
                       index, show_geometry_type, view, raised >>

\* the user presses the select button and picks a directory or cancels
SelectDirectory ==
  /\ pc = "idle"
  /\ \E dir \in Directories \cup {NoDirectory} : select_directory(dir)

\* one iteration of list_shapefiles' loop over files_to_process
ScanFile ==
  /\ pc = "scan"
  /\ LET f    == files_to_process[index + 1]
         info == file_info_of(f, show_geometry_type)
     IN  IF ~f.stat
         THEN \* os.path.getmtime raises OSError, which leaves list_shapefiles
              /\ pc' = "idle"
              /\ raised' = "OSError"
              /\ UNCHANGED << all_files, file_list, progress_bar, index >>
         ELSE /\ all_files' = Append(all_files, info)
              /\ file_list' = scan_add_item(file_list, info)
              /\ progress_bar' =
                   [ value   |-> index + 1,
                     maximum |-> progress_bar.maximum,
                     color   |-> update_progress_bar_color(index + 1, Len(files_to_process)) ]
              /\ index' = index + 1
              /\ pc' = IF index + 1 = Len(files_to_process) THEN "idle" ELSE "scan"
              /\ UNCHANGED raised
  /\ UNCHANGED << search_bar, show_geometry_type_checkbox, project, console,
                  directory, files_to_process, show_geometry_type, view >>

(***************************************************************************)
(* Filtering: filter_files.                                                *)
(***************************************************************************)
\* the loop of filter_files: the rows added for the records that match
RECURSIVE filter_rows(_, _, _)
filter_rows(pat, files, rows) ==
  IF files = <<>> THEN rows
  ELSE filter_rows(pat, Tail(files),
                   IF re_search(pat, lower(Head(files).file))
                   THEN add_file_item(rows, Head(files))
                   ELSE rows)

\* a filter that keeps in all_files only the records it displays
filter_files_destructive(text) ==
  LET pat == search_pattern(text)
  IN  /\ search_bar' = text
      /\ view' = "filter"
      /\ IF all_files # <<>> /\ re_error(pat)
         THEN /\ file_list' = <<>>
              /\ all_files' = all_files
              /\ raised' = "re.error"
         ELSE /\ file_list' = filter_rows(pat, all_files, <<>>)
              /\ all_files' = SelectSeq(all_files, LAMBDA r : re_search(pat, lower(r.file)))
              /\ raised' = ""
      /\ UNCHANGED << show_geometry_type_checkbox, progress_bar, project,
                      console, pc, directory, files_to_process, index,
                      show_geometry_type >>

\* filter_files with the new text of the search bar
filter_files(text) ==
  LET pat == search_pattern(text)
  IN  /\ search_bar' = text
      /\ view' = "filter"
      /\ IF all_files # <<>> /\ re_error(pat)
         THEN \* the table is cleared, then the first re.search raises
              /\ file_list' = <<>>
              /\ raised' = "re.error"
         ELSE /\ file_list' = filter_rows(pat, all_files, <<>>)
              /\ raised' = ""
      /\ UNCHANGED << all_files, show_geometry_type_checkbox, progress_bar, project,
                      console, pc, directory, files_to_process, index,
                      show_geometry_type >>

\* the user edits the search bar: textChanged fires when the text differs
FilterFiles ==
  /\ pc = "idle"
  /\ \E text \in Texts :
       /\ text # search_bar
       /\ filter_files(text)

(***************************************************************************)
(* The check boxes.                                                        *)
(***************************************************************************)
\* Qt.CheckState: Unchecked, PartiallyChecked, Checked
CheckStates == {0, 1, 2}

\* the check state of row i is set (a click switches between 0 and 2; 1 is
\* set through the item)
SetCheckState ==
  /\ pc = "idle"
  /\ \E i \in 1 .. Len(file_list), c \in CheckStates :
       /\ c # file_list[i].check
       /\ file_list' = [file_list EXCEPT ![i].check = c]
  /\ UNCHANGED << all_files, search_bar, show_geometry_type_checkbox, progress_bar,
                  project, console, pc, directory, files_to_process, index,
                  show_geometry_type, view, raised >>

\* the user toggles the show-geometry-type option
ToggleShowGeometryType ==
  /\ pc = "idle"
  /\ show_geometry_type_checkbox' = ~show_geometry_type_checkbox
  /\ UNCHANGED << all_files, file_list, search_bar, progress_bar, project, console,
                  pc, directory, files_to_process, index, show_geometry_type,
                  view, raised >>

(***************************************************************************)
(* Loading: load_selected_layers.                                          *)
(***************************************************************************)
\* QgsVectorLayer(file_path, ...).isValid()
layer_is_valid(path) ==
  \E k \in 1 .. Len(Disk) :
    /\ join(Disk[k].root, Disk[k].file) = path
    /\ Disk[k].stat
    /\ Disk[k].valid

\* any state but unchecked counts as selected
is_selected_not_unchecked(item) == item.check # 0

\* whether load_selected_layers opens the row
is_selected(item) == item.check = 2

\* the loop of load_selected_layers from row i on: log is the pair of the
\* layers registered and the paths printed so far
RECURSIVE load_rows(_, _, _)
load_rows(rows, i, log) ==
  IF i > Len(rows) THEN log
  ELSE IF is_selected(rows[i])
       THEN IF ~layer_is_valid(rows[i].file_path)
            THEN load_rows(rows, i + 1, <<log[1], Append(log[2], rows[i].file_path)>>)
            ELSE load_rows(rows, i + 1, <<Append(log[1], rows[i].file_path), log[2]>>)
       ELSE load_rows(rows, i + 1, log)

\* load_selected_layers
load_selected_layers ==
  LET log == load_rows(file_list, 1, <<project, console>>)
  IN  /\ project' = log[1]
      /\ console' = log[2]
      /\ UNCHANGED << all_files, file_list, search_bar, show_geometry_type_checkbox,
                      progress_bar, pc, directory, files_to_process, index,
                      show_geometry_type, view, raised >>

\* the user presses the load button
LoadSelectedLayers ==
  /\ pc = "idle"
  /\ Len(project) + Len(console) <= MaxLogged
  /\ load_selected_layers

(***************************************************************************)
(* The dialog.                                                             *)
(***************************************************************************)
Next ==
  \/ SelectDirectory
  \/ ScanFile
  \/ FilterFiles
  \/ SetCheckState
  \/ ToggleShowGeometryType
  \/ LoadSelectedLayers

Spec == Init /\ [][Next]_vars

\* the progress update of list_shapefiles' loop, for any count and total
ProgressUpdate ==
  \E total \in 1 .. MaxTotal :
    \E value \in 1 .. total :
      /\ progress_bar' =
           [ value   |-> value,
             maximum |-> total,
             color   |-> update_progress_bar_color(value, total) ]
      /\ UNCHANGED << all_files, file_list, search_bar, show_geometry_type_checkbox,
                      project, console, pc, directory, files_to_process, index,
                      show_geometry_type, view, raised >>

SpecColor == Init /\ [][ProgressUpdate]_vars

(***************************************************************************)
(* Properties.                                                             *)
(***************************************************************************)
\* the record a row shows: the row without its check state
RowRecord(item) ==
  [ file           |-> item.file,
    file_path      |-> item.file_path,
    file_mtime     |-> item.file_mtime,
    root           |-> item.root,
    geometry_type  |-> item.geometry_type,
    file_extension |-> item.file_extension ]

\* the records the rows show, top to bottom
RowRecords(rows) == [i \in 1 .. Len(rows) |-> RowRecord(rows[i])]

\* a scan has run to its end and nothing has rebuilt the rows since
ScanCompleted ==
  /\ pc = "idle"
  /\ view = "scan"
  /\ raised = ""
  /\ directory # NoDirectory

\* the suffixes of the allow-list
AllowList ==
  { <<".", "s", "h", "p">>, <<".", "g", "p", "k", "g">>,
    <<".", "g", "e", "o", "j", "s", "o", "n">>, <<".", "k", "m", "l">>,
    <<".", "c", "s", "v">>, <<".", "x", "l", "s", "x">>, <<".", "x", "l", "s">>,
    <<"d", "b", "f">> }

\* the entries of Disk beneath dir whose name ends with an allow-listed suffix
MatchedUnder(dir) ==
  { k \in 1 .. Len(Disk) :
      /\ Len(dir) <= Len(Disk[k].root)
      /\ SubSeq(Disk[k].root, 1, Len(dir)) = dir
      /\ \E suf \in AllowList :
           /\ Len(suf) <= Len(Disk[k].file)
           /\ \A n \in 1 .. Len(suf) :
                Disk[k].file[Len(Disk[k].file) - Len(suf) + n] = suf[n] }

\* some row shows the file named name
HasRow(name) == \E i \in 1 .. Len(file_list) : file_list[i].file = name

\* C1 (rows): every displayed row shows a record of all_files
C1_RowsAreRecords ==
  \A i \in 1 .. Len(file_list) :
    \E k \in 1 .. Len(all_files) : RowRecord(file_list[i]) = all_files[k]

\* C1 (filter): a filter-text change leaves all_files as it was
C1_FilterKeepsAllFiles == search_bar' # search_bar => all_files' = all_files

\* C1: in every reachable state every displayed row corresponds to a record
\* of all_files, and filter_files leaves all_files unchanged for every
\* filter text, one on which the match raises included
C1_TableIsProjection == [](C1_RowsAreRecords) /\ [][C1_FilterKeepsAllFiles]_vars

\* a filter whose match raised over a collection of three records
C1_Witness ==
  /\ view = "filter"
  /\ raised = "re.error"
  /\ Len(all_files) = 3
  /\ file_list = <<>>

\* C2 as claimed: after a filter text and then the empty text, the rows are
\* the records of all_files, one row each, in scan order
C2_ClearRestoresScanOrder ==
  (pc = "idle" /\ view = "filter" /\ search_bar = <<>>)
    => RowRecords(file_list) = all_files

\* rows are the records of files, one row each, ascending by date, records
\* of one date in the order they have in files
InDateOrder(rows, files) ==
  /\ Len(rows) = Len(files)
  /\ \E p \in Permutations(1 .. Len(files)) :
       /\ \A i \in 1 .. Len(rows) : RowRecord(rows[i]) = files[p[i]]
       /\ \A i, j \in 1 .. Len(rows) :
            i < j => \/ rows[i].file_mtime < rows[j].file_mtime
                     \/ /\ rows[i].file_mtime = rows[j].file_mtime
                        /\ p[i] < p[j]

\* C2 amended: after a filter text and then the empty text, the rows are the
\* records of all_files, one row each, in the table's sort order: ascending
\* modification date, records of one date in scan order
C2_ClearRestoresSortedRows ==
  (pc = "idle" /\ view = "filter" /\ search_bar = <<>>)
    => InDateOrder(file_list, all_files)

\* the empty text entered after another text, over three records that the
\* table shows in another order than the scan found them
C2_Witness ==
  /\ view = "filter"
  /\ search_bar = <<>>
  /\ Len(file_list) = 3
  /\ Len(all_files) = 3
  /\ RowRecords(file_list) # all_files
  /\ file_list[2].file_mtime = file_list[3].file_mtime

\* C3: after list_shapefiles(D) completes, the number of rows is the number
\* of files under D whose name ends with an allow-listed suffix;
\* notadbf.txt has no row, report.dbf and mydbf each have one
C3_RowCountIsMatchCount ==
  ScanCompleted =>
    /\ Len(file_list) = Cardinality(MatchedUnder(directory))
    /\ ~HasRow(N_notadbf_txt)
    /\ \A k \in MatchedUnder(directory) : HasRow(Disk[k].file)
    /\ (directory = <<"m">> => HasRow(N_mydbf))
    /\ (directory = <<"d">> => HasRow(N_report_dbf))

\* the scan of the directory that holds mydbf has completed
C3_Witness ==
  /\ ScanCompleted
  /\ directory = <<"m">>
  /\ HasRow(N_mydbf)
  /\ Len(file_list) = 1

\* the match of the simple pattern pat[i ..] at s[j ..]: "*" is any run of
\* characters, every other character is itself
RECURSIVE SimpleMatchAt(_, _, _, _)
SimpleMatchAt(pat, i, s, j) ==
  IF i > Len(pat) THEN TRUE
  ELSE IF pat[i] = "*"
       THEN \/ SimpleMatchAt(pat, i + 1, s, j)
            \/ /\ j <= Len(s)
               /\ SimpleMatchAt(pat, i, s, j + 1)
       ELSE /\ j <= Len(s)
            /\ pat[i] = s[j]
            /\ SimpleMatchAt(pat, i + 1, s, j + 1)

\* the simple pattern matches somewhere in s
SimpleMatch(pat, s) == \E j \in 1 .. (Len(s) + 1) : SimpleMatchAt(pat, 1, s, j)

\* C4 as claimed: filter_files displays a record if and only if its
\* lower-cased file name matches the lower-cased text read as a simple
\* pattern in which "*" is any run of characters and every other character
\* is literal
C4_FilterIsSimplePattern ==
  (pc = "idle" /\ view = "filter") =>
    \A k \in 1 .. Len(all_files) :
      (\E i \in 1 .. Len(file_list) : RowRecord(file_list[i]) = all_files[k])
        <=> SimpleMatch(lower(search_bar), lower(all_files[k].file))

\* C5: update_progress_bar_color(c, N) is red when c < 0.5 N, yellow when
\* 0.5 N <= c < 0.8 N and green when c >= 0.8 N
C5_ColorTiers ==
  progress_bar.color # "" =>
    LET c == progress_bar.value
        N == progress_bar.maximum
    IN  /\ (2 * c < N => progress_bar.color = "red")
        /\ ((2 * c >= N /\ 5 * c < 4 * N) => progress_bar.color = "yellow")
        /\ (5 * c >= 4 * N => progress_bar.color = "green")

\* exactly 80 per cent: 4 of 5
C5_Witness == progress_bar = [value |-> 4, maximum |-> 5, color |-> "green"]

\* the paths of the rows that satisfy Test, top to bottom
PathsWhere(rows, Test(_)) ==
  LET sel == SelectSeq(rows, Test)
  IN  [i \in 1 .. Len(sel) |-> sel[i].file_path]

\* the file at path opens as a valid layer
Opens(path) ==
  \E k \in 1 .. Len(Disk) :
    <<Disk[k].root, Disk[k].file>> = path /\ Disk[k].stat /\ Disk[k].valid

\* C6 (step): a load registers exactly the fully checked rows that open,
\* reports exactly the fully checked rows that do not, each in row order,
\* and keeps what was registered and reported before
C6_LoadStep ==
  (project' # project \/ console' # console) =>
    /\ project' = project \o
         PathsWhere(file_list, LAMBDA r : r.check = 2 /\ Opens(r.file_path))
    /\ console' = console \o
         PathsWhere(file_list, LAMBDA r : r.check = 2 /\ ~Opens(r.file_path))

\* C6: load_selected_layers registers a row's layer if and only if the row
\* is fully checked and its file opens, reports the path if and only if the
\* row is fully checked and the open is invalid; a failing row stops no
\* later row and nothing registered is rolled back
C6_LoadRegistersChecked == [][C6_LoadStep]_vars

\* three checked rows of which the second fails: the first and the third
\* are registered, the second is reported
C6_Witness ==
  /\ Len(file_list) = 3
  /\ \A i \in 1 .. 3 : file_list[i].check = 2
  /\ project = <<file_list[1].file_path, file_list[3].file_path>>
  /\ console = <<file_list[2].file_path>>

\* C7 as claimed: when the scan ends, every matched file other than one
\* whose modification time cannot be read or whose open fails has a record
\* in all_files and a displayed row
C7_ScanSkipsFailingFile ==
  (pc = "idle" /\ view = "scan" /\ directory # NoDirectory) =>
    \A k \in MatchedUnder(directory) :
      Disk[k].stat =>
        /\ \E n \in 1 .. Len(all_files) : all_files[n].file = Disk[k].file
        /\ HasRow(Disk[k].file)

\* C8: when the option is off as a scan starts, every record of that scan
\* and every row displayed from it has an empty geometry-type label
C8_NoLabelWhenOptionOff ==
  ~show_geometry_type =>
    /\ \A k \in 1 .. Len(all_files) : all_files[k].geometry_type = ""
    /\ \A i \in 1 .. Len(file_list) : file_list[i].geometry_type = ""

\* a .shp file that opens, scanned with the option off, shown after a
\* filter change with the option since switched on
C8_Witness ==
  /\ ~show_geometry_type
  /\ show_geometry_type_checkbox
  /\ view = "filter"
  /\ HasRow(N_Ab_shp)

\* C9 (scan): after a completed scan all_files holds one record per matched
\* file of the scanned directory, in enumeration order, and no other
C9_Rebuilt ==
  ScanCompleted =>
    /\ Len(all_files) = Cardinality(MatchedUnder(directory))
    /\ \A n \in 1 .. Len(all_files) :
         \E k \in MatchedUnder(directory) :
           /\ all_files[n].file_path = <<Disk[k].root, Disk[k].file>>
           /\ Cardinality({ m \in MatchedUnder(directory) : m < k }) = n - 1

\* C9 (cancel): a cancelled dialog leaves the collection and the rows
C9_CancelKeeps ==
  (directory # NoDirectory /\ directory' = NoDirectory) =>
    (all_files' = all_files /\ file_list' = file_list)

\* C9: a scan rebuilds the collection from scratch, with one record per
\* matched file of the new directory in enumeration order and none of the
\* old one; a cancelled dialog changes neither the collection nor the rows
C9_RebuiltFromScratch == [](C9_Rebuilt) /\ [][C9_CancelKeeps]_vars

\* the scan of m has completed after a layer of d was loaded
C9_Witness ==
  /\ ScanCompleted
  /\ directory = <<"m">>
  /\ Len(all_files) = 1
  /\ project = << <<(<<"d", "sub">>), N_Ab_shp>> >>

\* C10 (scan end): the step that ends a scan leaves the search text, shows
\* every record of the new collection and leaves every row unchecked
C10_ScanEnd ==
  (pc = "scan" /\ pc' = "idle" /\ raised' = "") =>
    /\ search_bar' = search_bar
    /\ Len(file_list') = Len(all_files')
    /\ \A k \in 1 .. Len(all_files') :
         \E i \in 1 .. Len(file_list') :
           /\ RowRecord(file_list'[i]) = all_files'[k]
           /\ file_list'[i].check = 0

\* C10 (until the next change): a step that neither scans nor changes the
\* search text leaves the displayed records
C10_RowsKept ==
  (pc = "idle" /\ pc' = "idle" /\ search_bar' = search_bar /\ directory' = directory)
    => RowRecords(file_list') = RowRecords(file_list)

\* C10 (filter): once the search text has changed, the rows show the
\* records that match it
C10_Filtered ==
  (pc = "idle" /\ view = "filter" /\ raised = "") =>
    LET pat == search_pattern(search_bar)
    IN  \A k \in 1 .. Len(all_files) :
          (\E i \in 1 .. Len(file_list) : RowRecord(file_list[i]) = all_files[k])
            <=> re_search(pat, lower(all_files[k].file))

\* C10: a scan does not consult the search text: when it completes the rows
\* are all records of the new collection, all unchecked, and they become
\* the matching subset only at the next change of the search text
C10_ScanIgnoresFilter == [](C10_Filtered) /\ [][C10_ScanEnd /\ C10_RowsKept]_vars

\* a completed scan under a search text that one of its rows does not match
C10_Witness ==
  /\ ScanCompleted
  /\ search_bar = <<"*", ".", "s", "h", "p">>
  /\ HasRow(N_report_dbf)
  /\ \A i \in 1 .. Len(file_list) : file_list[i].check = 0

====
